---- MODULE Spec2Model ----
(***************************************************************************)
(* WhisperWire server: the Socket.IO signaling handlers, the ClientManager *)
(* and ChannelManager registries, the MediasoupManager tables and the HTTP *)
(* auth routes, as a state machine.                                        *)
(*                                                                         *)
(* Every module of the server constructs its own registries (`new          *)
(* ClientManager()`, `new ChannelManager()`): socketHandler.js owns cmS    *)
(* and chmS, the auth routes own cmA.  The MediasoupManager is a singleton.*)
(***************************************************************************)
EXTENDS Integers, Sequences, FiniteSets, TLC

\* ------------------------------------------------------------------ bounds
NumSessions == 2      \* socket connections (socket.id values)
MaxClientIds == 2     \* uuids handed out by addPendingClient / createAdminClient after start-up
MaxTransports == 2    \* WebRTC transports ever created
MaxProducers == 2     \* producers ever created
MaxConsumers == 2     \* consumers ever created
MaxChannels == 1      \* channels ever created after start-up, per ChannelManager

\* ------------------------------------------------------------- identifiers
\* Every identifier is a pair <<kind, n>>: socket ids, uuids of clients and
\* channels, and mediasoup ids are disjoint value spaces.
Null == <<"null", 0>>
Sid(n) == <<"socket", n>>
Cid(n) == <<"client", n>>
ChId(n) == <<"channel", n>>
Tid(n) == <<"transport", n>>
Pid(n) == <<"producer", n>>
Kid(n) == <<"consumer", n>>

Sessions == {Sid(n) : n \in 1..NumSessions}

\* JavaScript values of request fields and environment variables.
JsUndefined == "<undefined>"
Falsy(v) == v = JsUndefined \/ v = ""

\* A channel-keyed object that may be absent (`permissions.speakTo`).
NoMap == [def |-> FALSE, m |-> <<>>]
EmptyMap == [def |-> TRUE, m |-> <<>>]
MapOf(f) == [def |-> TRUE, m |-> f]

\* ----------------------------------------------------------- small helpers
Range(seq) == {seq[i] : i \in 1..Len(seq)}
Includes(seq, x) == x \in Range(seq)
Without(seq, x) == SelectSeq(seq, LAMBDA y : y # x)
Restrict(f, S) == [x \in S |-> f[x]]
Put(f, k, v) == [x \in (DOMAIN f) \cup {k} |-> IF x = k THEN v ELSE f[x]]
Drop(f, k) == Restrict(f, (DOMAIN f) \ {k})
\* seq.splice(seq.indexOf(x), 1): the first occurrence only
RemoveFirst(seq, x) ==
  IF ~Includes(seq, x) THEN seq
  ELSE LET i == CHOOSE i \in 1..Len(seq) : seq[i] = x /\ \A j \in 1..(i - 1) : seq[j] # x
       IN SubSeq(seq, 1, i - 1) \o SubSeq(seq, i + 1, Len(seq))

\* --------------------------------------------------------- ChannelManager
\* A ChannelManager is its `channels` Map: channel id -> channel record.
NewChannel(name, description) ==
  [name |-> name, description |-> description, clients |-> {}, producers |-> {}]

\* createChannel(name, description = '')
ChM_createChannel(chm, id, name, description) ==
  Put(chm, id, NewChannel(name, IF description = JsUndefined THEN "" ELSE description))

\* constructor: the System channel
ChM_new(id) == ChM_createChannel(<<>>, id, "System", "System-wide")

ChM_getChannel(chm, channelId) == IF channelId \in DOMAIN chm THEN channelId ELSE Null

\* an addClientToChannel that records nothing
ChM_addClientToChannelDropped(chm, channelId, clientId) ==
  chm

ChM_addClientToChannel(chm, channelId, clientId) ==
  IF channelId \notin DOMAIN chm THEN chm
  ELSE [chm EXCEPT ![channelId].clients = @ \cup {clientId}]

ChM_removeClientFromChannel(chm, channelId, clientId) ==
  IF channelId \notin DOMAIN chm THEN chm
  ELSE [chm EXCEPT ![channelId].clients = @ \ {clientId}]

ChM_addProducerToChannel(chm, channelId, producerId) ==
  IF channelId \notin DOMAIN chm THEN chm
  ELSE [chm EXCEPT ![channelId].producers = @ \cup {producerId}]

ChM_removeProducerFromChannel(chm, channelId, producerId) ==
  IF channelId \notin DOMAIN chm THEN chm
  ELSE [chm EXCEPT ![channelId].producers = @ \ {producerId}]

\* updateChannel(channelId, updates): `if (updates.name) channel.name = updates.name`
ChM_updateChannel(chm, channelId, updates) ==
  IF channelId \notin DOMAIN chm THEN chm
  ELSE [chm EXCEPT ![channelId].name = IF Falsy(updates.name) THEN @ ELSE updates.name,
                   ![channelId].description =
                       IF Falsy(updates.description) THEN @ ELSE updates.description]

\* deleteChannel(channelId): [chm, success]; a channel named 'System' stays
ChM_deleteChannel(chm, channelId) ==
  IF channelId \in DOMAIN chm /\ chm[channelId].name = "System"
  THEN [chm |-> chm, success |-> FALSE]
  ELSE [chm |-> Drop(chm, channelId), success |-> channelId \in DOMAIN chm]

\* ---------------------------------------------------------- ClientManager
\* A ClientManager is [clients, order, pending]: the `clients` Map (with its
\* insertion order, which getClientBySocketId iterates) and `pendingClients`.
AdminClient(name) ==
  [name |-> name, socketId |-> Null, isAdmin |-> TRUE, authorized |-> TRUE,
   channels |-> <<>>,
   permissions |-> [speakToAll |-> TRUE, listenToAll |-> TRUE,
                    speakTo |-> NoMap, listenTo |-> NoMap],
   channelSettings |-> <<>>]

CM_setClient(cm, clientId, rec) ==
  [cm EXCEPT !.clients = Put(@, clientId, rec),
             !.order = IF clientId \in DOMAIN cm.clients THEN @ ELSE Append(@, clientId)]

CM_createAdminClient(cm, id, name) == CM_setClient(cm, id, AdminClient(name))

\* constructor: an admin client when CREATE_ADMIN and ADMIN_NAME are set
CM_new(createAdmin, id) ==
  LET empty == [clients |-> <<>>, order |-> <<>>, pending |-> <<>>]
  IN IF createAdmin THEN CM_createAdminClient(empty, id, "admin") ELSE empty

CM_addPendingClient(cm, id, socketId, name) ==
  [cm EXCEPT !.pending = Put(@, id, [name |-> name, socketId |-> socketId])]

DefaultSettings == [muted |-> FALSE, volume |-> 10]

\* The permissions argument of authorizeClient: a request object whose
\* fields may be missing (`permissions.speakTo || {}`).
AuthorizedClient(p, channels, permissions) ==
  [name |-> p.name, socketId |-> p.socketId,
   isAdmin |-> permissions.isAdmin, authorized |-> TRUE,
   channels |-> channels,
   permissions |-> [speakToAll |-> permissions.speakToAll,
                    listenToAll |-> permissions.listenToAll,
                    speakTo |-> IF permissions.speakTo.def THEN permissions.speakTo ELSE EmptyMap,
                    listenTo |-> IF permissions.listenTo.def THEN permissions.listenTo ELSE EmptyMap],
   channelSettings |-> [c \in Range(channels) |-> DefaultSettings]]

\* authorizeClient(clientId, channels, permissions): [cm, found]
CM_authorizeClient(cm, clientId, channels, permissions) ==
  IF clientId \notin DOMAIN cm.pending THEN [cm |-> cm, found |-> FALSE]
  ELSE [cm |-> [CM_setClient(cm, clientId,
                             AuthorizedClient(cm.pending[clientId], channels, permissions))
                 EXCEPT !.pending = Drop(@, clientId)],
        found |-> TRUE]

\* rejectClient that deletes the id from the active clients as well
CM_rejectClientAnyRecord(cm, clientId) ==
  [cm EXCEPT !.pending = Drop(@, clientId), !.clients = Drop(@, clientId),
             !.order = Without(@, clientId)]

CM_rejectClient(cm, clientId) == [cm EXCEPT !.pending = Drop(@, clientId)]

\* getClientBySocketId: the first client, in insertion order, with that socketId
CM_getClientBySocketId(cm, socketId) ==
  LET hits == SelectSeq(cm.order, LAMBDA c : cm.clients[c].socketId = socketId)
  IN IF hits = <<>> THEN Null ELSE Head(hits)

\* A registry that takes every socket for an admin (the admin check left out).
CM_isAdminMutTrue(cm, socketId) == TRUE

CM_isAdmin(cm, socketId) ==
  LET c == CM_getClientBySocketId(cm, socketId)
  IN c # Null /\ cm.clients[c].isAdmin

CM_removeClient(cm, clientId) ==
  [cm EXCEPT !.clients = Drop(@, clientId), !.order = Without(@, clientId)]

\* canSpeak without the `client.channels.includes(channelId)` test
CM_canSpeakNoMembership(cm, clientId, channelId) ==
  IF clientId \notin DOMAIN cm.clients THEN FALSE
  ELSE LET client == cm.clients[clientId]
       IN IF client.permissions.speakToAll THEN TRUE
          ELSE channelId \in DOMAIN client.permissions.speakTo.m
               /\ client.permissions.speakTo.m[channelId] = TRUE

CM_canSpeak(cm, clientId, channelId) ==
  IF clientId \notin DOMAIN cm.clients THEN FALSE
  ELSE LET client == cm.clients[clientId]
       IN IF ~Includes(client.channels, channelId) THEN FALSE
          ELSE IF client.permissions.speakToAll THEN TRUE
          ELSE channelId \in DOMAIN client.permissions.speakTo.m
               /\ client.permissions.speakTo.m[channelId] = TRUE

CM_canListen(cm, clientId, channelId) ==
  IF clientId \notin DOMAIN cm.clients THEN FALSE
  ELSE LET client == cm.clients[clientId]
       IN IF ~Includes(client.channels, channelId) THEN FALSE
          ELSE IF client.permissions.listenToAll THEN TRUE
          ELSE channelId \in DOMAIN client.permissions.listenTo.m
               /\ client.permissions.listenTo.m[channelId] = TRUE

\* canSpeak / canListen read `permissions.speakTo[channelId]`: a TypeError
\* when the object is absent (an admin client made by createAdminClient).
CM_canSpeakThrows(cm, clientId, channelId) ==
  /\ clientId \in DOMAIN cm.clients
  /\ Includes(cm.clients[clientId].channels, channelId)
  /\ ~cm.clients[clientId].permissions.speakToAll
  /\ ~cm.clients[clientId].permissions.speakTo.def

\* a setter that flips the flag when asked to mute
CM_setChannelMuteStatusFlips(cm, clientId, channelId, muted) ==
  IF clientId \notin DOMAIN cm.clients
     \/ channelId \notin DOMAIN cm.clients[clientId].channelSettings
  THEN cm
  ELSE [cm EXCEPT !.clients[clientId].channelSettings[channelId].muted =
                     IF muted THEN ~@ ELSE @]

CM_setChannelMuteStatus(cm, clientId, channelId, muted) ==
  IF clientId \notin DOMAIN cm.clients
     \/ channelId \notin DOMAIN cm.clients[clientId].channelSettings
  THEN cm
  ELSE [cm EXCEPT !.clients[clientId].channelSettings[channelId].muted = muted]

\* What Math.min and Math.max return for an argument that is not a number
\* ("loud", {}): NaN, written as an integer that no request sends as a volume.
NaN == -999

\* volumes are tenths: Math.max(0, Math.min(1, volume))
Clamp(volume) ==
  IF volume = NaN THEN NaN
  ELSE IF volume < 0 THEN 0 ELSE IF volume > 10 THEN 10 ELSE volume

\* a setter that also withdraws the client's listen-to-all right
CM_setChannelVolumeAndRights(cm, clientId, channelId, volume) ==
  IF clientId \notin DOMAIN cm.clients
     \/ channelId \notin DOMAIN cm.clients[clientId].channelSettings
  THEN cm
  ELSE [cm EXCEPT !.clients[clientId].channelSettings[channelId].volume = Clamp(volume),
                  !.clients[clientId].permissions.listenToAll = FALSE]

CM_setChannelVolume(cm, clientId, channelId, volume) ==
  IF clientId \notin DOMAIN cm.clients
     \/ channelId \notin DOMAIN cm.clients[clientId].channelSettings
  THEN cm
  ELSE [cm EXCEPT !.clients[clientId].channelSettings[channelId].volume = Clamp(volume)]

\* An addClientToChannel that reports success without looking the client up.
CM_addClientToChannelUnchecked(cm, clientId, channelId) == [cm |-> cm, success |-> TRUE]

\* addClientToChannel(clientId, channelId): [cm, success]
CM_addClientToChannel(cm, clientId, channelId) ==
  IF clientId \notin DOMAIN cm.clients THEN [cm |-> cm, success |-> FALSE]
  ELSE LET client == cm.clients[clientId]
       IN IF Includes(client.channels, channelId) THEN [cm |-> cm, success |-> FALSE]
          ELSE [cm |-> [cm EXCEPT !.clients[clientId].channels = Append(@, channelId),
                                  !.clients[clientId].channelSettings =
                                      IF channelId \in DOMAIN @ THEN @
                                      ELSE Put(@, channelId, DefaultSettings)],
                success |-> TRUE]

\* removeClientFromChannel(clientId, channelId): [cm, success]
\* removeClientFromChannel without the splice of client.channels
CM_removeClientFromChannelSettingsOnly(cm, clientId, channelId) ==
  IF clientId \notin DOMAIN cm.clients
     \/ ~Includes(cm.clients[clientId].channels, channelId)
  THEN [cm |-> cm, success |-> FALSE]
  ELSE [cm |-> [cm EXCEPT !.clients[clientId].channelSettings = Drop(@, channelId)],
        success |-> TRUE]

CM_removeClientFromChannel(cm, clientId, channelId) ==
  IF clientId \notin DOMAIN cm.clients THEN [cm |-> cm, success |-> FALSE]
  ELSE LET client == cm.clients[clientId]
       IN IF ~Includes(client.channels, channelId) THEN [cm |-> cm, success |-> FALSE]
          ELSE [cm |-> [cm EXCEPT !.clients[clientId].channels = RemoveFirst(@, channelId),
                                  !.clients[clientId].channelSettings = Drop(@, channelId)],
                success |-> TRUE]

\* {...a, ...b} of two channel-keyed objects, either of which may be absent
Spread(a, b) ==
  MapOf([x \in (DOMAIN a.m) \cup (DOMAIN b.m) |-> IF x \in DOMAIN b.m THEN b.m[x] ELSE a.m[x]])

\* updateClientPermissions(clientId, permissions): fields of `permissions`
\* may be missing; isAdmin is not among the fields it copies
CM_updateClientPermissions(cm, clientId, permissions) ==
  IF clientId \notin DOMAIN cm.clients THEN cm
  ELSE [cm EXCEPT
          !.clients[clientId].permissions.speakToAll =
              IF permissions.speakToAll.def THEN permissions.speakToAll.v ELSE @,
          !.clients[clientId].permissions.listenToAll =
              IF permissions.listenToAll.def THEN permissions.listenToAll.v ELSE @,
          !.clients[clientId].permissions.speakTo =
              IF permissions.speakTo.def THEN Spread(@, permissions.speakTo) ELSE @,
          !.clients[clientId].permissions.listenTo =
              IF permissions.listenTo.def THEN Spread(@, permissions.listenTo) ELSE @]

\* -------------------------------------------------------- MediasoupManager
\* The manager's tables: transports, producers, consumers (Maps keyed by id).
\* `owner` is the socket whose request created the object; the manager does
\* not store it.
MS_new == [transports |-> <<>>, producers |-> <<>>, consumers |-> <<>>]

MS_createWebRtcTransport(ms, id, owner) ==
  [ms EXCEPT !.transports = Put(@, id, [owner |-> owner, connected |-> FALSE])]

MS_produce(ms, id, transportId, owner) ==
  [ms EXCEPT !.producers = Put(@, id, [transportId |-> transportId, owner |-> owner])]

MS_consume(ms, id, transportId, producerId, owner) ==
  [ms EXCEPT !.consumers = Put(@, id, [transportId |-> transportId,
                                       producerId |-> producerId, owner |-> owner])]

\* a close that deletes the transport's entry and nothing else
MS_closeTransportOnly(ms, transportId) ==
  [ms EXCEPT !.transports = Drop(@, transportId)]

\* transport.close(): the 'close' handler deletes the transport; its
\* producers and consumers get 'transportclose', and the consumers of a
\* closed producer get 'producerclose'; each handler deletes its entry.
MS_closeTransport(ms, transportId) ==
  LET deadP == {p \in DOMAIN ms.producers : ms.producers[p].transportId = transportId}
      deadK == {k \in DOMAIN ms.consumers :
                  \/ ms.consumers[k].transportId = transportId
                  \/ ms.consumers[k].producerId \in deadP}
  IN [transports |-> Drop(ms.transports, transportId),
      producers |-> Restrict(ms.producers, (DOMAIN ms.producers) \ deadP),
      consumers |-> Restrict(ms.consumers, (DOMAIN ms.consumers) \ deadK)]

\* ------------------------------------------------------------------- state
VARIABLES
  env,       \* process.env: SERVER_PASSWORD, ADMIN_KEY, CREATE_ADMIN (with ADMIN_NAME)
  proc,      \* the server process: HTTP server, mediasoup worker, signal seen, exit code
  sock,      \* socket id -> "open" | "closed"
  rooms,     \* socket id -> Socket.IO rooms joined besides its own id
  cmS,       \* socketHandler.js: clientManager
  chmS,      \* socketHandler.js: channelManager
  cmA,       \* auth routes: clientManager
  cmC,       \* clients routes: clientManager
  chmC,      \* clients routes: channelManager
  chmH,      \* channels routes: channelManager
  cmX,       \* a ClientManager instance driven through its methods directly
  chmX,      \* a ChannelManager instance driven through its methods directly
  calls,     \* the handlers suspended at an `await mediasoupManager...`, oldest first
  token,     \* the JWT each user agent holds: [clientId, isAdmin], NoToken before any login
  ms,        \* the MediasoupManager singleton
  nextId,    \* the next fresh id of each kind
  resp,      \* the answer to the last request (callback / HTTP response)
  emitted    \* the Socket.IO events emitted by the last request

vars ==
  <<env, proc, sock, rooms, cmS, chmS, cmA, cmC, chmC, chmH, cmX, chmX, calls, token, ms,
    nextId, resp, emitted>>

\* uuids made at start-up, one per registry instance
BootAdminS == Cid(0)
BootAdminA == Cid(-1)
BootAdminC == Cid(-2)
BootAdminX == Cid(-3)
SystemS == ChId(0)
SystemC == ChId(-1)
SystemH == ChId(-2)
SystemX == ChId(-3)

ServerSecrets == {JsUndefined, "wire"}
AdminKeys == {JsUndefined, "key"}
SuppliedSecrets == {JsUndefined, "", "wire", "oops"}
SuppliedKeys == {JsUndefined, "key", "oops"}

NoToken == [clientId |-> Null, isAdmin |-> FALSE]

NoResp == [sid |-> Null, op |-> "none", success |-> FALSE, error |-> "none"]
Ok(s, op) == [sid |-> s, op |-> op, success |-> TRUE, error |-> "none"]
Err(s, op, e) == [sid |-> s, op |-> op, success |-> FALSE, error |-> e]

\* The process once index.js has run and mediasoupManager.initialize() has
\* resolved: the HTTP server listens, the worker is up, no signal has come.
Running ==
  [listening |-> TRUE, closing |-> FALSE, worker |-> "up", timer |-> FALSE,
   signal |-> "none", exit |-> "none"]

\* What the modules construct when they are loaded.
Constructed ==
  /\ env \in [SERVER_PASSWORD : ServerSecrets, ADMIN_KEY : AdminKeys, CREATE_ADMIN : BOOLEAN]
  /\ sock = [s \in Sessions |-> "open"]
  /\ rooms = [s \in Sessions |-> {}]
  /\ cmS = CM_new(env.CREATE_ADMIN, BootAdminS)
  /\ chmS = ChM_new(SystemS)
  /\ cmA = CM_new(env.CREATE_ADMIN, BootAdminA)
  /\ cmC = CM_new(env.CREATE_ADMIN, BootAdminC)
  /\ chmC = ChM_new(SystemC)
  /\ chmH = ChM_new(SystemH)
  /\ cmX = CM_new(env.CREATE_ADMIN, BootAdminX)
  /\ chmX = ChM_new(SystemX)
  /\ calls = <<>>
  /\ token = [s \in Sessions |-> NoToken]
  /\ ms = MS_new
  /\ nextId = [client |-> 1, channel |-> 1, transport |-> 1, producer |-> 1, consumer |-> 1]
  /\ resp = NoResp
  /\ emitted = {}

Init == Constructed /\ proc = Running

\* An emitted event: socket.to(room).emit / socket.broadcast.emit, from a sender.
Event(name, room, from, clientId) ==
  [name |-> name, room |-> room, from |-> from, clientId |-> clientId]

\* The sockets an emitted event reaches: those in the room ("*": every
\* socket), never the sender.
Receivers(e) ==
  {t \in Sessions : /\ sock[t] = "open"
                    /\ t # e.from
                    /\ (e.room = "*" \/ e.room = t \/ e.room \in rooms[t])}

\* ------------------------------------------------------- request arguments
UnknownId == Null
ChannelNames == {"System", "Main"}
Volumes == {-5, 0, 5, 10, 15}

\* `channels` of an authorizeClient request: absent, or an array of channel ids
NoChannels == [def |-> FALSE, v |-> <<>>]
ChannelsArgs == {NoChannels} \cup {[def |-> TRUE, v |-> q] : q \in {<<>>, <<SystemS>>}}

\* `permissions` of an authorizeClient request: absent, or an object
PermObject(isAdmin, all, map) ==
  [isAdmin |-> isAdmin, speakToAll |-> all, listenToAll |-> all, speakTo |-> map, listenTo |-> map]
NoPermissions == [def |-> FALSE, v |-> PermObject(FALSE, FALSE, NoMap)]
PermissionsArgs ==
  {NoPermissions} \cup
  {[def |-> TRUE, v |-> o] : o \in {PermObject(FALSE, FALSE, NoMap),
                                     PermObject(FALSE, FALSE, MapOf(SystemS :> TRUE)),
                                     PermObject(FALSE, TRUE, NoMap),
                                     PermObject(TRUE, FALSE, NoMap)}}

\* ids a request may name as `clientId`
ClientIdArgs == Sessions \cup (DOMAIN cmS.pending) \cup (DOMAIN cmS.clients)
ChannelIdArgs == (DOMAIN chmS) \cup {UnknownId}
\* A session names the transports whose ids it was sent (its own), or an
\* unknown id; producer ids are not secret to it.
TransportIdArgs(s) == {t \in DOMAIN ms.transports : ms.transports[t].owner = s} \cup {UnknownId}
ProducerIdArgs == (DOMAIN ms.producers) \cup {UnknownId}

\* The `data` of an authorizeClient request.  The handler reads it only
\* after the admin check, so one request stands for all when that check fails.
AuthorizeArgs(s) ==
  LET all == [clientId : ClientIdArgs, authorized : BOOLEAN, channels : ChannelsArgs,
              permissions : PermissionsArgs, ioJoinsSender : BOOLEAN]
  IN IF CM_isAdmin(cmS, s) THEN all
     ELSE {d \in all : /\ d.channels = NoChannels
                       /\ d.permissions = NoPermissions /\ d.ioJoinsSender}

\* ------------------------------------------------------- socketHandler.js
\* A comparison without the falsy guard: two undefined secrets are equal.
SecretAcceptedNoFalsyCheck(supplied, configured) == supplied = configured

\* authenticate: `!serverPassword || serverPassword !== process.env.SERVER_PASSWORD` fails
SecretAccepted(supplied, configured) == ~(Falsy(supplied) \/ supplied # configured)

Authenticate(s, serverPassword) ==
  /\ sock[s] = "open"
  /\ IF ~SecretAccepted(serverPassword, env.SERVER_PASSWORD)
     THEN /\ resp' = Err(s, "authenticate", "Invalid server password")
          /\ emitted' = {}
          /\ UNCHANGED <<cmS, nextId>>
     ELSE /\ nextId.client <= MaxClientIds
          /\ cmS' = CM_addPendingClient(cmS, Cid(nextId.client), s, "client")
          /\ nextId' = [nextId EXCEPT !.client = @ + 1]
          /\ emitted' = {Event("clientPending", "admin", s, s)}
          /\ resp' = Ok(s, "authenticate")
  /\ UNCHANGED <<env, proc, calls, chmX, sock, rooms, chmS, cmA, token, ms, cmC, chmC, chmH, cmX>>

\* authorizeClient.  `socket.to(clientId).join(channelId)`: Socket.IO 4 has
\* no join on the broadcast operator (a TypeError); Socket.IO 3 returns the
\* sender's socket from to(), which then joins the room itself.
AuthorizeClient(s, clientId, authorized, channels, permissions, ioJoinsSender) ==
  /\ sock[s] = "open"
  /\ IF ~CM_isAdmin(cmS, s)
     THEN /\ resp' = Err(s, "authorizeClient", "Unauthorized")
          /\ emitted' = {}
          /\ UNCHANGED <<cmS, rooms>>
     ELSE IF ~authorized
     THEN /\ cmS' = CM_rejectClient(cmS, clientId)
          /\ emitted' = {Event("rejected", clientId, s, clientId)}
          /\ resp' = Ok(s, "authorizeClient")
          /\ UNCHANGED rooms
     ELSE IF clientId \in DOMAIN cmS.pending /\ ~permissions.def
     THEN \* `permissions.isAdmin` of undefined, before any assignment
          /\ resp' = Err(s, "authorizeClient", "TypeError")
          /\ emitted' = {}
          /\ UNCHANGED <<cmS, rooms>>
     ELSE /\ cmS' = CM_authorizeClient(cmS, clientId, channels.v, permissions.v).cm
          /\ IF ~channels.def \/ (channels.v # <<>> /\ ~ioJoinsSender)
             THEN \* `channels.forEach` of undefined, or join is not a function
                  /\ resp' = Err(s, "authorizeClient", "TypeError")
                  /\ emitted' = {}
                  /\ UNCHANGED rooms
             ELSE /\ rooms' = [rooms EXCEPT ![s] = @ \cup Range(channels.v)]
                  /\ emitted' = {Event("authorized", clientId, s, clientId)}
                  /\ resp' = Ok(s, "authorizeClient")
  /\ UNCHANGED <<env, proc, calls, chmX, sock, chmS, cmA, token, ms, nextId, cmC, chmC, chmH, cmX>>

CreateChannel(s, channelName) ==
  /\ sock[s] = "open"
  /\ IF ~CM_isAdmin(cmS, s)
     THEN /\ resp' = Err(s, "createChannel", "Unauthorized")
          /\ emitted' = {}
          /\ UNCHANGED <<chmS, nextId>>
     ELSE /\ nextId.channel <= MaxChannels
          /\ chmS' = ChM_createChannel(chmS, ChId(nextId.channel), channelName, "")
          /\ nextId' = [nextId EXCEPT !.channel = @ + 1]
          /\ emitted' = {Event("channelCreated", "*", s, Null)}
          /\ resp' = Ok(s, "createChannel")
  /\ UNCHANGED <<env, proc, calls, chmX, sock, rooms, cmS, cmA, token, ms, cmC, chmC, chmH, cmX>>

ToggleChannelMute(s, channelId, muted) ==
  /\ sock[s] = "open"
  /\ LET client == CM_getClientBySocketId(cmS, s)
     IN IF client = Null
        THEN /\ resp' = Err(s, "toggleChannelMute", "Client not found")
             /\ UNCHANGED cmS
        ELSE /\ cmS' = CM_setChannelMuteStatus(cmS, client, channelId, muted)
             /\ resp' = Ok(s, "toggleChannelMute")
  /\ emitted' = {}
  /\ UNCHANGED <<env, proc, calls, chmX, sock, rooms, chmS, cmA, token, ms, nextId, cmC, chmC, chmH, cmX>>

AdjustChannelVolume(s, channelId, volume) ==
  /\ sock[s] = "open"
  /\ LET client == CM_getClientBySocketId(cmS, s)
     IN IF client = Null
        THEN /\ resp' = Err(s, "adjustChannelVolume", "Client not found")
             /\ UNCHANGED cmS
        ELSE /\ cmS' = CM_setChannelVolume(cmS, client, channelId, volume)
             /\ resp' = Ok(s, "adjustChannelVolume")
  /\ emitted' = {}
  /\ UNCHANGED <<env, proc, calls, chmX, sock, rooms, chmS, cmA, token, ms, nextId, cmC, chmC, chmH, cmX>>

GetRouterRtpCapabilities(s) ==
  /\ sock[s] = "open"
  /\ resp' = Ok(s, "getRouterRtpCapabilities")
  /\ emitted' = {}
  /\ UNCHANGED <<env, proc, calls, chmX, sock, rooms, cmS, chmS, cmA, token, ms, nextId, cmC, chmC, chmH, cmX>>

CreateWebRtcTransport(s) ==
  /\ sock[s] = "open"
  /\ nextId.transport <= MaxTransports
  /\ ms' = MS_createWebRtcTransport(ms, Tid(nextId.transport), s)
  /\ nextId' = [nextId EXCEPT !.transport = @ + 1]
  /\ resp' = Ok(s, "createWebRtcTransport")
  /\ emitted' = {}
  /\ UNCHANGED <<env, proc, calls, chmX, sock, rooms, cmS, chmS, cmA, token, cmC, chmC, chmH, cmX>>

\* createWebRtcTransport, in the two turns of the event loop it takes: the
\* handler runs to `await mediasoupManager.createWebRtcTransport(...)` and
\* suspends; when the worker has answered it stores the transport and
\* calls back.  Socket.IO starts the handler of the session's next event
\* without waiting for a suspended one.
AwaitCreateWebRtcTransport(s) ==
  /\ sock[s] = "open"
  /\ nextId.transport + Len(calls) <= MaxTransports
  /\ calls' = Append(calls, [sid |-> s, op |-> "createWebRtcTransport"])
  /\ UNCHANGED <<env, proc, chmX, sock, rooms, cmS, chmS, cmA, token, ms, nextId, cmC, chmC, chmH, cmX,
                 resp, emitted>>

ResumeCreateWebRtcTransport ==
  /\ calls # <<>>
  /\ ms' = MS_createWebRtcTransport(ms, Tid(nextId.transport), Head(calls).sid)
  /\ nextId' = [nextId EXCEPT !.transport = @ + 1]
  /\ resp' = Ok(Head(calls).sid, "createWebRtcTransport")
  /\ calls' = Tail(calls)
  /\ emitted' = {}
  /\ UNCHANGED <<env, proc, chmX, sock, rooms, cmS, chmS, cmA, token, cmC, chmC, chmH, cmX>>

\* transport.connect() rejects a second call on the same transport
ConnectWebRtcTransport(s, transportId) ==
  /\ sock[s] = "open"
  /\ IF transportId \notin DOMAIN ms.transports
     THEN /\ resp' = Err(s, "connectWebRtcTransport", "not found")
          /\ UNCHANGED ms
     ELSE IF ms.transports[transportId].connected
     THEN /\ resp' = Err(s, "connectWebRtcTransport", "already connected")
          /\ UNCHANGED ms
     ELSE /\ ms' = [ms EXCEPT !.transports[transportId].connected = TRUE]
          /\ resp' = Ok(s, "connectWebRtcTransport")
  /\ emitted' = {}
  /\ UNCHANGED <<env, proc, calls, chmX, sock, rooms, cmS, chmS, cmA, token, nextId, cmC, chmC, chmH, cmX>>

RECURSIVE RegisterProducer(_, _, _, _, _)
\* produce: client.channels.forEach(channelId => canSpeak && addProducerToChannel)
RegisterProducer(cm, chm, clientId, producerId, channels) ==
  IF channels = <<>> THEN [chm |-> chm, threw |-> FALSE]
  ELSE IF CM_canSpeakThrows(cm, clientId, Head(channels)) THEN [chm |-> chm, threw |-> TRUE]
  ELSE RegisterProducer(cm,
                        IF CM_canSpeak(cm, clientId, Head(channels))
                        THEN ChM_addProducerToChannel(chm, Head(channels), producerId)
                        ELSE chm,
                        clientId, producerId, Tail(channels))

\* produce without the lookup of the transport
ProduceAnyTransport(s, transportId, rtpOk) ==
  /\ sock[s] = "open"
  /\ nextId.producer <= MaxProducers
  /\ ms' = MS_produce(ms, Pid(nextId.producer), transportId, s)
  /\ nextId' = [nextId EXCEPT !.producer = @ + 1]
  /\ resp' = Ok(s, "produce")
  /\ emitted' = {}
  /\ UNCHANGED <<env, proc, calls, chmX, sock, rooms, cmS, chmS, cmA, token, cmC, chmC, chmH, cmX>>

\* produce.  rtpOk: transport.produce() accepts the kind and rtpParameters.
Produce(s, transportId, rtpOk) ==
  /\ sock[s] = "open"
  /\ IF transportId \notin DOMAIN ms.transports
     THEN /\ resp' = Err(s, "produce", "not found")
          /\ UNCHANGED <<ms, chmS, nextId>>
     ELSE IF ~rtpOk
     THEN /\ resp' = Err(s, "produce", "unsupported")
          /\ UNCHANGED <<ms, chmS, nextId>>
     ELSE /\ nextId.producer <= MaxProducers
          /\ ms' = MS_produce(ms, Pid(nextId.producer), transportId, s)
          /\ nextId' = [nextId EXCEPT !.producer = @ + 1]
          /\ LET client == CM_getClientBySocketId(cmS, s)
                 reg == IF client = Null THEN [chm |-> chmS, threw |-> FALSE]
                        ELSE RegisterProducer(cmS, chmS, client, Pid(nextId.producer),
                                              cmS.clients[client].channels)
             IN /\ chmS' = reg.chm
                /\ resp' = IF reg.threw THEN Err(s, "produce", "TypeError") ELSE Ok(s, "produce")
  /\ emitted' = {}
  /\ UNCHANGED <<env, proc, calls, chmX, sock, rooms, cmS, cmA, token, cmC, chmC, chmH, cmX>>

\* consume.  capsOk: router.canConsume({producerId, rtpCapabilities}).
\* consume without the lookups and without router.canConsume
ConsumeUnchecked(s, transportId, producerId, capsOk) ==
  /\ sock[s] = "open"
  /\ nextId.consumer <= MaxConsumers
  /\ ms' = MS_consume(ms, Kid(nextId.consumer), transportId, producerId, s)
  /\ nextId' = [nextId EXCEPT !.consumer = @ + 1]
  /\ resp' = Ok(s, "consume")
  /\ emitted' = {}
  /\ UNCHANGED <<env, proc, calls, chmX, sock, rooms, cmS, chmS, cmA, token, cmC, chmC, chmH, cmX>>

Consume(s, transportId, producerId, capsOk) ==
  /\ sock[s] = "open"
  /\ IF transportId \notin DOMAIN ms.transports \/ producerId \notin DOMAIN ms.producers
     THEN /\ resp' = Err(s, "consume", "not found")
          /\ UNCHANGED <<ms, nextId>>
     ELSE IF ~capsOk
     THEN /\ resp' = Err(s, "consume", "cannot consume")
          /\ UNCHANGED <<ms, nextId>>
     ELSE /\ nextId.consumer <= MaxConsumers
          /\ ms' = MS_consume(ms, Kid(nextId.consumer), transportId, producerId, s)
          /\ nextId' = [nextId EXCEPT !.consumer = @ + 1]
          /\ resp' = Ok(s, "consume")
  /\ emitted' = {}
  /\ UNCHANGED <<env, proc, calls, chmX, sock, rooms, cmS, chmS, cmA, token, cmC, chmC, chmH, cmX>>

\* disconnect: client.channels.forEach(channelId => removeClientFromChannel(channelId, client.id))
RECURSIVE LeaveChannels(_, _, _)
LeaveChannels(chm, clientId, channels) ==
  IF channels = <<>> THEN chm
  ELSE LeaveChannels(ChM_removeClientFromChannel(chm, Head(channels), clientId),
                     clientId, Tail(channels))

\* a disconnect handler that drops one pending entry of the socket each time
\* it runs
DisconnectHandlerDropsOnePending(s) ==
  /\ LET mine == {id \in DOMAIN cmS.pending : cmS.pending[id].socketId = s}
     IN cmS' = IF mine = {} THEN cmS
               ELSE CM_rejectClient(cmS, CHOOSE id \in mine : \A o \in mine : id[2] <= o[2])
  /\ emitted' = {}
  /\ UNCHANGED chmS

\* the body of the disconnect handler
DisconnectHandler(s) ==
  LET client == CM_getClientBySocketId(cmS, s)
  IN IF client = Null
     THEN /\ emitted' = {}
          /\ UNCHANGED <<cmS, chmS>>
     ELSE /\ chmS' = LeaveChannels(chmS, client, cmS.clients[client].channels)
          /\ emitted' = {Event("clientDisconnected", "*", s, client)}
          /\ cmS' = CM_removeClient(cmS, client)

\* disconnect
Disconnect(s) ==
  /\ sock[s] = "open"
  /\ sock' = [sock EXCEPT ![s] = "closed"]
  /\ rooms' = [rooms EXCEPT ![s] = {}]
  /\ DisconnectHandler(s)
  /\ resp' = NoResp
  /\ UNCHANGED <<env, proc, calls, chmX, cmA, token, ms, nextId, cmC, chmC, chmH, cmX>>

\* The handler run once more for a socket that is closed already.  Socket.IO
\* emits 'disconnect' once per socket; this is the second close of a session
\* as the handler would process it.
DisconnectAgain(s) ==
  /\ sock[s] = "closed"
  /\ DisconnectHandler(s)
  /\ resp' = NoResp
  /\ UNCHANGED <<env, proc, calls, chmX, sock, rooms, cmA, token, ms, nextId, cmC, chmC, chmH, cmX>>

\* The peer ends the DTLS association of a connected transport:
\* 'dtlsstatechange' with state 'closed'.
DtlsClosed(transportId) ==
  /\ transportId \in DOMAIN ms.transports
  /\ ms.transports[transportId].connected
  /\ ms' = MS_closeTransport(ms, transportId)
  /\ UNCHANGED <<env, proc, calls, chmX, sock, rooms, cmS, chmS, cmA, token, nextId, resp, emitted, cmC, chmC, chmH, cmX>>

\* ------------------------------------------------------ process lifecycle
\* Everything of the requests' state a lifecycle step leaves alone.
ProcFrame ==
  UNCHANGED <<env, sock, rooms, cmS, chmS, cmA, cmC, chmC, chmH, cmX, chmX, calls, token,
              nextId, resp, emitted>>

\* `await mediasoupManager.initialize()` resolves
InitializeDone ==
  /\ proc.exit = "none" /\ proc.worker = "initializing"
  /\ proc' = [proc EXCEPT !.worker = "up"]
  /\ UNCHANGED ms /\ ProcFrame

\* it rejects: the catch block calls process.exit(1)
InitializeFailed ==
  /\ proc.exit = "none" /\ proc.worker = "initializing"
  /\ proc' = [proc EXCEPT !.worker = "failed", !.exit = "1"]
  /\ UNCHANGED ms /\ ProcFrame

\* worker.on('died'): setTimeout(() => process.exit(1), 2000)
WorkerDied ==
  /\ proc.exit = "none" /\ proc.worker = "up"
  /\ proc' = [proc EXCEPT !.worker = "died", !.timer = TRUE]
  /\ UNCHANGED ms /\ ProcFrame

\* the timer set by the 'died' handler fires
DiedTimer ==
  /\ proc.exit = "none" /\ proc.timer
  /\ proc' = [proc EXCEPT !.timer = FALSE, !.exit = "1"]
  /\ UNCHANGED ms /\ ProcFrame

\* process.on('SIGTERM'): server.close(callback).  The HTTP server stops
\* listening; the callback waits for the connections that are open.
Sigterm ==
  /\ proc.exit = "none"
  /\ proc' = [proc EXCEPT !.listening = FALSE, !.closing = TRUE,
                          !.signal = IF @ = "none" THEN "SIGTERM" ELSE @]
  /\ UNCHANGED ms /\ ProcFrame

\* The callback of server.close, once the last connection has ended:
\* mediasoupManager.close() clears the tables and closes the worker if one
\* was created, then process.exit(0).
ServerClosed ==
  /\ proc.exit = "none" /\ proc.closing
  /\ \A s \in Sessions : sock[s] = "closed"
  /\ ms' = MS_new
  /\ proc' = [proc EXCEPT !.closing = FALSE,
                          !.worker = IF @ \in {"up", "died"} THEN "closed" ELSE @,
                          !.exit = "0"]
  /\ ProcFrame

\* SIGINT has no listener: Node's default handler ends the process with
\* code 128 + 2, and none of the server's code runs.
Sigint ==
  /\ proc.exit = "none"
  /\ proc' = [proc EXCEPT !.exit = "130", !.signal = IF @ = "none" THEN "SIGINT" ELSE @]
  /\ UNCHANGED ms /\ ProcFrame

\* ----------------------------------------------------------- auth routes
\* utils/auth.js authenticateClient
authenticateClient(serverPassword) ==
  IF Falsy(env.SERVER_PASSWORD) THEN FALSE ELSE serverPassword = env.SERVER_PASSWORD

\* POST /api/auth/login, by the user agent of socket s
Login(s, serverPassword) ==
  /\ IF Falsy(serverPassword)
     THEN /\ resp' = Err(s, "login", "400")
          /\ UNCHANGED <<cmA, token, nextId>>
     ELSE IF ~authenticateClient(serverPassword)
     THEN /\ resp' = Err(s, "login", "401")
          /\ UNCHANGED <<cmA, token, nextId>>
     ELSE /\ nextId.client <= MaxClientIds
          /\ cmA' = CM_addPendingClient(cmA, Cid(nextId.client), Null, "client")
          /\ token' = [token EXCEPT ![s] = [clientId |-> Cid(nextId.client), isAdmin |-> FALSE]]
          /\ nextId' = [nextId EXCEPT !.client = @ + 1]
          /\ resp' = Ok(s, "login")
  /\ emitted' = {}
  /\ UNCHANGED <<env, proc, calls, chmX, sock, rooms, cmS, chmS, ms, cmC, chmC, chmH, cmX>>

\* admin-login: `!process.env.ADMIN_KEY` and `adminKey !== process.env.ADMIN_KEY` fail
AdminKeyAccepted(adminKey) == ~Falsy(env.ADMIN_KEY) /\ adminKey = env.ADMIN_KEY

\* POST /api/auth/admin-login, by the user agent of socket s
AdminLogin(s, serverPassword, adminKey) ==
  /\ IF Falsy(serverPassword) \/ Falsy(adminKey)
     THEN /\ resp' = Err(s, "admin-login", "400")
          /\ UNCHANGED <<cmA, token, nextId>>
     ELSE IF ~authenticateClient(serverPassword) \/ ~AdminKeyAccepted(adminKey)
     THEN /\ resp' = Err(s, "admin-login", "401")
          /\ UNCHANGED <<cmA, token, nextId>>
     ELSE /\ nextId.client <= MaxClientIds
          /\ cmA' = CM_createAdminClient(cmA, Cid(nextId.client), "admin")
          /\ token' = [token EXCEPT ![s] = [clientId |-> Cid(nextId.client), isAdmin |-> TRUE]]
          /\ nextId' = [nextId EXCEPT !.client = @ + 1]
          /\ resp' = Ok(s, "admin-login")
  /\ emitted' = {}
  /\ UNCHANGED <<env, proc, calls, chmX, sock, rooms, cmS, chmS, ms, cmC, chmC, chmH, cmX>>

\* --------------------------------------------------------- channels routes
\* router.use('/channels', authenticateJWT, ...) and requireAdmin, for the
\* token the user agent of s holds: the status that ends the request, or "ok"
AdminGate(s) ==
  IF token[s] = NoToken THEN "401" ELSE IF ~token[s].isAdmin THEN "403" ELSE "ok"

\* POST /api/channels
PostChannel(s, name, description) ==
  /\ IF AdminGate(s) # "ok"
     THEN /\ resp' = Err(s, "POST /channels", AdminGate(s))
          /\ UNCHANGED <<chmH, nextId>>
     ELSE IF Falsy(name)
     THEN /\ resp' = Err(s, "POST /channels", "400")
          /\ UNCHANGED <<chmH, nextId>>
     ELSE /\ nextId.channel <= MaxChannels
          /\ chmH' = ChM_createChannel(chmH, ChId(nextId.channel), name, description)
          /\ nextId' = [nextId EXCEPT !.channel = @ + 1]
          /\ resp' = Ok(s, "POST /channels")
  /\ emitted' = {}
  /\ UNCHANGED <<env, proc, calls, chmX, sock, rooms, cmS, chmS, cmA, cmC, chmC, cmX, token, ms>>

\* PUT /api/channels/:id
PutChannel(s, channelId, name, description) ==
  /\ IF AdminGate(s) # "ok"
     THEN /\ resp' = Err(s, "PUT /channels/:id", AdminGate(s))
          /\ UNCHANGED chmH
     ELSE IF channelId \notin DOMAIN chmH
     THEN /\ resp' = Err(s, "PUT /channels/:id", "404")
          /\ UNCHANGED chmH
     ELSE /\ chmH' = ChM_updateChannel(chmH, channelId,
                                       [name |-> name, description |-> description])
          /\ resp' = Ok(s, "PUT /channels/:id")
  /\ emitted' = {}
  /\ UNCHANGED <<env, proc, calls, chmX, sock, rooms, cmS, chmS, cmA, cmC, chmC, cmX, token, ms, nextId>>

\* DELETE /api/channels/:id
DeleteChannel(s, channelId) ==
  /\ IF AdminGate(s) # "ok"
     THEN /\ resp' = Err(s, "DELETE /channels/:id", AdminGate(s))
          /\ UNCHANGED chmH
     ELSE LET r == ChM_deleteChannel(chmH, channelId)
          IN /\ chmH' = r.chm
             /\ resp' = IF r.success THEN Ok(s, "DELETE /channels/:id")
                        ELSE Err(s, "DELETE /channels/:id", "404")
  /\ emitted' = {}
  /\ UNCHANGED <<env, proc, calls, chmX, sock, rooms, cmS, chmS, cmA, cmC, chmC, cmX, token, ms, nextId>>

\* ---------------------------------------------------------- clients routes
\* authorize: channels.forEach(channelId => channelManager.addClientToChannel(channelId, client.id))
RECURSIVE JoinChannels(_, _, _)
JoinChannels(chm, clientId, channels) ==
  IF channels = <<>> THEN chm
  ELSE JoinChannels(ChM_addClientToChannel(chm, Head(channels), clientId),
                    clientId, Tail(channels))

\* POST /api/clients/:id/authorize
AuthorizeRoute(s, id, channels, permissions) ==
  /\ IF AdminGate(s) # "ok"
     THEN /\ resp' = Err(s, "POST /clients/:id/authorize", AdminGate(s))
          /\ UNCHANGED <<cmC, chmC>>
     ELSE IF ~channels.def \/ ~permissions.def
     THEN /\ resp' = Err(s, "POST /clients/:id/authorize", "400")
          /\ UNCHANGED <<cmC, chmC>>
     ELSE LET r == CM_authorizeClient(cmC, id, channels.v, permissions.v)
          IN IF ~r.found
             THEN /\ resp' = Err(s, "POST /clients/:id/authorize", "404")
                  /\ UNCHANGED <<cmC, chmC>>
             ELSE /\ cmC' = r.cm
                  /\ chmC' = JoinChannels(chmC, id, channels.v)
                  /\ resp' = Ok(s, "POST /clients/:id/authorize")
  /\ emitted' = {}
  /\ UNCHANGED <<env, proc, calls, chmX, sock, rooms, cmS, chmS, cmA, chmH, cmX, token, ms, nextId>>

\* POST /api/clients/:id/reject
RejectRoute(s, id) ==
  /\ IF AdminGate(s) # "ok"
     THEN /\ resp' = Err(s, "POST /clients/:id/reject", AdminGate(s))
          /\ UNCHANGED cmC
     ELSE /\ cmC' = CM_rejectClient(cmC, id)
          /\ resp' = IF id \in DOMAIN cmC.pending THEN Ok(s, "POST /clients/:id/reject")
                     ELSE Err(s, "POST /clients/:id/reject", "404")
  /\ emitted' = {}
  /\ UNCHANGED <<env, proc, calls, chmX, sock, rooms, cmS, chmS, cmA, chmC, chmH, cmX, token, ms, nextId>>

\* PUT /api/clients/:id/permissions
PutPermissions(s, id, permissions) ==
  /\ IF AdminGate(s) # "ok"
     THEN /\ resp' = Err(s, "PUT /clients/:id/permissions", AdminGate(s))
          /\ UNCHANGED cmC
     ELSE /\ cmC' = CM_updateClientPermissions(cmC, id, permissions)
          /\ resp' = IF id \in DOMAIN cmC.clients THEN Ok(s, "PUT /clients/:id/permissions")
                     ELSE Err(s, "PUT /clients/:id/permissions", "404")
  /\ emitted' = {}
  /\ UNCHANGED <<env, proc, calls, chmX, sock, rooms, cmS, chmS, cmA, chmC, chmH, cmX, token, ms, nextId>>

\* POST /api/clients/:id/channels; channelId is a field of the body
PostClientChannel(s, id, channelId) ==
  /\ IF AdminGate(s) # "ok"
     THEN /\ resp' = Err(s, "POST /clients/:id/channels", AdminGate(s))
          /\ UNCHANGED <<cmC, chmC>>
     ELSE IF ~channelId.def
     THEN /\ resp' = Err(s, "POST /clients/:id/channels", "400")
          /\ UNCHANGED <<cmC, chmC>>
     ELSE IF ChM_getChannel(chmC, channelId.v) = Null
     THEN /\ resp' = Err(s, "POST /clients/:id/channels", "404")
          /\ UNCHANGED <<cmC, chmC>>
     ELSE LET r == CM_addClientToChannel(cmC, id, channelId.v)
          IN IF ~r.success
             THEN /\ resp' = Err(s, "POST /clients/:id/channels", "404")
                  /\ cmC' = r.cm
                  /\ UNCHANGED chmC
             ELSE /\ cmC' = r.cm
                  /\ chmC' = ChM_addClientToChannel(chmC, channelId.v, id)
                  /\ resp' = Ok(s, "POST /clients/:id/channels")
  /\ emitted' = {}
  /\ UNCHANGED <<env, proc, calls, chmX, sock, rooms, cmS, chmS, cmA, chmH, cmX, token, ms, nextId>>

\* DELETE /api/clients/:id/channels/:channelId
DeleteClientChannel(s, id, channelId) ==
  /\ IF AdminGate(s) # "ok"
     THEN /\ resp' = Err(s, "DELETE /clients/:id/channels/:channelId", AdminGate(s))
          /\ UNCHANGED <<cmC, chmC>>
     ELSE LET r == CM_removeClientFromChannel(cmC, id, channelId)
          IN IF ~r.success
             THEN /\ resp' = Err(s, "DELETE /clients/:id/channels/:channelId", "404")
                  /\ cmC' = r.cm
                  /\ UNCHANGED chmC
             ELSE /\ cmC' = r.cm
                  /\ chmC' = ChM_removeClientFromChannel(chmC, channelId, id)
                  /\ resp' = Ok(s, "DELETE /clients/:id/channels/:channelId")
  /\ emitted' = {}
  /\ UNCHANGED <<env, proc, calls, chmX, sock, rooms, cmS, chmS, cmA, chmH, cmX, token, ms, nextId>>

\* POST /api/clients/:id/channels {channelId} followed by
\* DELETE /api/clients/:id/channels/:channelId, as one admin sends them: the
\* two registries after both requests
AddThenRemove(cm, chm, id, channelId) ==
  IF ChM_getChannel(chm, channelId) = Null
  THEN LET r == CM_removeClientFromChannel(cm, id, channelId)
       IN [cm |-> r.cm,
           chm |-> IF r.success THEN ChM_removeClientFromChannel(chm, channelId, id) ELSE chm]
  ELSE LET a == CM_addClientToChannel(cm, id, channelId)
           chm1 == IF a.success THEN ChM_addClientToChannel(chm, channelId, id) ELSE chm
           r == CM_removeClientFromChannel(a.cm, id, channelId)
       IN [cm |-> r.cm,
           chm |-> IF r.success THEN ChM_removeClientFromChannel(chm1, channelId, id) ELSE chm1]

\* PUT /api/clients/:id/channel-settings/:channelId; muted and volume are
\* optional fields of the body, and the answer follows the last call made
PutChannelSettings(s, id, channelId, muted, volume) ==
  /\ IF token[s] = NoToken
     THEN /\ resp' = Err(s, "PUT /clients/:id/channel-settings/:channelId", "401")
          /\ UNCHANGED cmC
     ELSE IF ~token[s].isAdmin /\ token[s].clientId # id
     THEN /\ resp' = Err(s, "PUT /clients/:id/channel-settings/:channelId", "403")
          /\ UNCHANGED cmC
     ELSE LET has == id \in DOMAIN cmC.clients
                       /\ channelId \in DOMAIN cmC.clients[id].channelSettings
              cm1 == IF muted.def THEN CM_setChannelMuteStatus(cmC, id, channelId, muted.v)
                     ELSE cmC
              cm2 == IF volume.def THEN CM_setChannelVolume(cm1, id, channelId, volume.v)
                     ELSE cm1
          IN /\ cmC' = cm2
             /\ resp' = IF has /\ (muted.def \/ volume.def)
                        THEN Ok(s, "PUT /clients/:id/channel-settings/:channelId")
                        ELSE Err(s, "PUT /clients/:id/channel-settings/:channelId", "404")
  /\ emitted' = {}
  /\ UNCHANGED <<env, proc, calls, chmX, sock, rooms, cmS, chmS, cmA, chmC, chmH, cmX, token, ms, nextId>>

\* ------------------------------------------- ClientManager, called directly
\* The methods of one ClientManager instance, called in any order by a
\* module that holds it; nothing else of the server takes part.
RegistryFrame ==
  UNCHANGED <<env, proc, calls, sock, rooms, cmS, chmS, cmA, cmC, chmC, chmH, token, ms, resp, emitted>>

Call_addPendingClient(socketId) ==
  /\ nextId.client <= MaxClientIds
  /\ cmX' = CM_addPendingClient(cmX, Cid(nextId.client), socketId, "client")
  /\ nextId' = [nextId EXCEPT !.client = @ + 1]
  /\ UNCHANGED chmX /\ RegistryFrame

Call_authorizeClient(clientId, channels, permissions) ==
  /\ cmX' = CM_authorizeClient(cmX, clientId, channels, permissions).cm
  /\ UNCHANGED <<nextId, chmX>> /\ RegistryFrame

Call_addClientToChannel(clientId, channelId) ==
  /\ cmX' = CM_addClientToChannel(cmX, clientId, channelId).cm
  /\ UNCHANGED <<nextId, chmX>> /\ RegistryFrame

Call_removeClientFromChannel(clientId, channelId) ==
  /\ cmX' = CM_removeClientFromChannel(cmX, clientId, channelId).cm
  /\ UNCHANGED <<nextId, chmX>> /\ RegistryFrame

Call_setChannelMuteStatus(clientId, channelId, muted) ==
  /\ cmX' = CM_setChannelMuteStatus(cmX, clientId, channelId, muted)
  /\ UNCHANGED <<nextId, chmX>> /\ RegistryFrame

Call_setChannelVolume(clientId, channelId, volume) ==
  /\ cmX' = CM_setChannelVolume(cmX, clientId, channelId, volume)
  /\ UNCHANGED <<nextId, chmX>> /\ RegistryFrame

\* the methods of a ChannelManager instance held beside it
Call_createChannel(name) ==
  /\ nextId.channel <= MaxChannels
  /\ chmX' = ChM_createChannel(chmX, ChId(nextId.channel), name, JsUndefined)
  /\ nextId' = [nextId EXCEPT !.channel = @ + 1]
  /\ UNCHANGED cmX /\ RegistryFrame

Call_deleteChannel(channelId) ==
  /\ chmX' = ChM_deleteChannel(chmX, channelId).chm
  /\ UNCHANGED <<nextId, cmX>> /\ RegistryFrame

\* ------------------------------------------------------------ specification
\* Admission: the signaling requests on the client and channel registries.
Next ==
  \/ \E s \in Sessions, pw \in SuppliedSecrets : Authenticate(s, pw)
  \/ \E s \in Sessions : \E d \in AuthorizeArgs(s) :
        AuthorizeClient(s, d.clientId, d.authorized, d.channels, d.permissions, d.ioJoinsSender)
  \/ \E s \in Sessions, n \in ChannelNames : CreateChannel(s, n)
  \/ \E s \in Sessions, c \in ChannelIdArgs, m \in BOOLEAN : ToggleChannelMute(s, c, m)
  \/ \E s \in Sessions, c \in ChannelIdArgs, v \in Volumes : AdjustChannelVolume(s, c, v)
  \/ \E s \in Sessions : Disconnect(s)

Spec == Init /\ [][Next]_vars

\* Authentication: the three ways a user agent presents a secret, the
\* authenticate request of a socket and the two auth routes, under every
\* configuration of the secrets.
AuthNext ==
  \/ \E s \in Sessions, pw \in SuppliedSecrets : Authenticate(s, pw)
  \/ \E s \in Sessions, pw \in SuppliedSecrets : Login(s, pw)
  \/ \E s \in Sessions, pw \in SuppliedSecrets, k \in SuppliedKeys : AdminLogin(s, pw, k)

AuthSpec == Init /\ [][AuthNext]_vars

\* Channel administration: the channels routes, used by user agents that
\* logged in as client or as admin.  The routes read no secret, so the
\* secrets are configured and the logins present the right ones.
ChannelNameArgs == ChannelNames \cup {JsUndefined}
DescriptionArgs == {JsUndefined, "notes"}
ChannelRouteIds == (DOMAIN chmH) \cup {SystemH, UnknownId}

ChannelsInit == Init /\ env.SERVER_PASSWORD = "wire" /\ env.ADMIN_KEY = "key"

ChannelsNext ==
  \/ \E s \in Sessions : Login(s, "wire")
  \/ \E s \in Sessions : AdminLogin(s, "wire", "key")
  \/ \E s \in Sessions, n \in ChannelNameArgs, d \in DescriptionArgs : PostChannel(s, n, d)
  \/ \E s \in Sessions, c \in ChannelRouteIds, n \in ChannelNameArgs, d \in DescriptionArgs :
        PutChannel(s, c, n, d)
  \/ \E s \in Sessions, c \in ChannelRouteIds : DeleteChannel(s, c)

ChannelsSpec == ChannelsInit /\ [][ChannelsNext]_vars

\* Client administration over HTTP: clients enrol through the authenticate
\* request or the login route, and admins work the pending queue and the
\* channel membership through the clients routes.
ClientRouteIds ==
  (DOMAIN cmC.clients) \cup (DOMAIN cmC.pending) \cup (DOMAIN cmS.pending)
    \cup (DOMAIN cmA.pending) \cup {UnknownId}
ClientRouteChannels == (DOMAIN chmC) \cup {UnknownId}
ChannelIdBodies ==
  {[def |-> FALSE, v |-> Null]} \cup {[def |-> TRUE, v |-> c] : c \in ClientRouteChannels}
AuthorizeBodies ==
  [channels : {NoChannels, [def |-> TRUE, v |-> <<SystemC>>],
               [def |-> TRUE, v |-> <<SystemC, UnknownId>>]},
   permissions : {NoPermissions,
                  [def |-> TRUE, v |-> PermObject(FALSE, FALSE, MapOf(SystemC :> TRUE))]}]

ClientsNext ==
  \/ \E s \in Sessions : Authenticate(s, "wire")
  \/ \E s \in Sessions : Login(s, "wire")
  \/ \E s \in Sessions : AdminLogin(s, "wire", "key")
  \/ \E s \in Sessions, id \in ClientRouteIds, b \in AuthorizeBodies :
        AuthorizeRoute(s, id, b.channels, b.permissions)
  \/ \E s \in Sessions, id \in ClientRouteIds : RejectRoute(s, id)
  \/ \E s \in Sessions, id \in ClientRouteIds, c \in ChannelIdBodies :
        PostClientChannel(s, id, c)
  \/ \E s \in Sessions, id \in ClientRouteIds, c \in ClientRouteChannels :
        DeleteClientChannel(s, id, c)

ClientsSpec == ChannelsInit /\ [][ClientsNext]_vars

\* Permissions and listen preferences over HTTP: an admin edits the
\* permission matrix, the membership and the per-channel settings of the
\* clients the clients routes hold.
NoFlag == [def |-> FALSE, v |-> FALSE]
Flag(b) == [def |-> TRUE, v |-> b]
PermissionBody(speakToAll, listenToAll, speakTo, listenTo) ==
  [speakToAll |-> speakToAll, listenToAll |-> listenToAll,
   speakTo |-> speakTo, listenTo |-> listenTo]
PermissionBodies ==
  {PermissionBody(Flag(FALSE), Flag(FALSE), NoMap, NoMap),
   PermissionBody(Flag(TRUE), NoFlag, NoMap, NoMap),
   PermissionBody(NoFlag, NoFlag, MapOf(SystemC :> TRUE), NoMap),
   PermissionBody(NoFlag, NoFlag, MapOf(SystemC :> FALSE), MapOf(SystemC :> TRUE))}
NoVolume == [def |-> FALSE, v |-> 0]
SettingsBodies ==
  {[muted |-> Flag(TRUE), volume |-> NoVolume],
   [muted |-> Flag(FALSE), volume |-> NoVolume],
   [muted |-> NoFlag, volume |-> [def |-> TRUE, v |-> -5]],
   [muted |-> NoFlag, volume |-> [def |-> TRUE, v |-> NaN]]}

SettingsNext ==
  \/ \E s \in Sessions : AdminLogin(s, "wire", "key")
  \/ \E s \in Sessions, id \in ClientRouteIds, b \in PermissionBodies :
        PutPermissions(s, id, b)
  \/ \E s \in Sessions, id \in ClientRouteIds, c \in ChannelIdBodies :
        PostClientChannel(s, id, c)
  \/ \E s \in Sessions, id \in ClientRouteIds, c \in ClientRouteChannels :
        DeleteClientChannel(s, id, c)
  \/ \E s \in Sessions, id \in ClientRouteIds, c \in ClientRouteChannels, b \in SettingsBodies :
        PutChannelSettings(s, id, c, b.muted, b.volume)

SettingsSpec == ChannelsInit /\ [][SettingsNext]_vars

\* The Client Registry and the Channel Registry by themselves: every order of
\* calls of their methods, with channel lists that may repeat an id.
RegistryChannels == {ChId(n) : n \in 1..MaxChannels}
RegistryChannelLists == UNION {[1..n -> RegistryChannels] : n \in 0..2}
RegistryClientIds == (DOMAIN cmX.clients) \cup (DOMAIN cmX.pending)

RegistryNext ==
  \/ \E s \in Sessions : Call_addPendingClient(s)
  \/ \E id \in RegistryClientIds, l \in RegistryChannelLists :
        Call_authorizeClient(id, l, PermObject(FALSE, FALSE, NoMap))
  \/ \E id \in RegistryClientIds, c \in RegistryChannels : Call_addClientToChannel(id, c)
  \/ \E id \in RegistryClientIds, c \in RegistryChannels : Call_removeClientFromChannel(id, c)
  \/ \E id \in RegistryClientIds, c \in RegistryChannels, m \in BOOLEAN :
        Call_setChannelMuteStatus(id, c, m)
  \/ \E id \in RegistryClientIds, c \in RegistryChannels, v \in {0, 15} :
        Call_setChannelVolume(id, c, v)
  \/ Call_createChannel("ops")
  \/ \E c \in RegistryChannels \cup {SystemX} : Call_deleteChannel(c)

RegistrySpec == Init /\ [][RegistryNext]_vars

\* Request order: requests that suspend on the Media Worker beside requests
\* that do not.
OrderNext ==
  \/ \E s \in Sessions, p \in SuppliedSecrets : Authenticate(s, p)
  \/ \E s \in Sessions : GetRouterRtpCapabilities(s)
  \/ \E s \in Sessions : AwaitCreateWebRtcTransport(s)
  \/ ResumeCreateWebRtcTransport

OrderSpec == ChannelsInit /\ [][OrderNext]_vars

\* Transports, producers and consumers by themselves: the requests of one
\* session that name the first transport and the first producer the server
\* issued, or the second transport as the one to consume on (before they exist, while they are open, after they are closed) or
\* an id the server never issued.
TransportNext ==
  \/ CreateWebRtcTransport(Sid(1))
  \/ \E t \in TransportIdArgs(Sid(1)) : ConnectWebRtcTransport(Sid(1), t)
  \/ \E ok \in BOOLEAN : Produce(Sid(1), Tid(1), ok)
  \/ \E t \in {Tid(1), Tid(2), UnknownId}, p \in {Pid(1), UnknownId}, ok \in BOOLEAN :
        Consume(Sid(1), t, p, ok)
  \/ \E t \in DOMAIN ms.transports : DtlsClosed(t)

TransportSpec == ChannelsInit /\ [][TransportNext]_vars

\* Session close: sessions that authenticate, start a transport request and
\* disconnect, in any order.
CloseNext ==
  \/ \E s \in Sessions : Authenticate(s, "wire")
  \/ \E s \in Sessions : AwaitCreateWebRtcTransport(s)
  \/ ResumeCreateWebRtcTransport
  \/ \E s \in Sessions : Disconnect(s)
  \/ \E s \in Sessions : DisconnectAgain(s)

CloseSpec == ChannelsInit /\ [][CloseNext]_vars

\* Membership: every request of either surface that names a client and a
\* channel together, or removes one of the two; one user agent administers
\* over HTTP and one socket enrols and disconnects.
MembershipNext ==
  \/ Authenticate(Sid(2), "wire")
  \/ AdminLogin(Sid(1), "wire", "key")
  \/ \E d \in AuthorizeArgs(Sid(2)) :
        AuthorizeClient(Sid(2), d.clientId, d.authorized, d.channels, d.permissions,
                        d.ioJoinsSender)
  \/ \E id \in ClientRouteIds :
        AuthorizeRoute(Sid(1), id, [def |-> TRUE, v |-> <<SystemC>>],
                       [def |-> TRUE, v |-> PermObject(FALSE, FALSE, NoMap)])
  \/ \E id \in ClientRouteIds, c \in ChannelIdBodies : PostClientChannel(Sid(1), id, c)
  \/ \E id \in ClientRouteIds, c \in ClientRouteChannels : DeleteClientChannel(Sid(1), id, c)
  \/ PostChannel(Sid(1), "Main", JsUndefined)
  \/ \E c \in ChannelRouteIds : DeleteChannel(Sid(1), c)
  \/ Disconnect(Sid(2))

MembershipSpec == ChannelsInit /\ [][MembershipNext]_vars

\* Start-up and shutdown: the process from the moment index.js has run, the
\* worker still initialising, with sockets that enrol and leave while it lives.
StartInit ==
  /\ Constructed /\ env.SERVER_PASSWORD = "wire" /\ env.ADMIN_KEY = "key"
  /\ proc = [Running EXCEPT !.worker = "initializing"]

ShutdownNext ==
  \/ InitializeDone
  \/ InitializeFailed
  \/ WorkerDied
  \/ DiedTimer
  \/ Sigterm
  \/ ServerClosed
  \/ Sigint
  \/ \E s \in Sessions : proc.exit = "none" /\ Authenticate(s, "wire")
  \/ \E s \in Sessions : proc.exit = "none" /\ Disconnect(s)

ShutdownSpec == StartInit /\ [][ShutdownNext]_vars

\* Media: the signaling requests on the Media Worker.  No media request
\* reads the secrets, so they are fixed here.
MediaInit == Init /\ env.SERVER_PASSWORD = "wire" /\ env.ADMIN_KEY = "key"

MediaNext ==
  \/ \E s \in Sessions : GetRouterRtpCapabilities(s)
  \/ \E s \in Sessions : CreateWebRtcTransport(s)
  \/ \E s \in Sessions : \E t \in TransportIdArgs(s) : ConnectWebRtcTransport(s, t)
  \/ \E s \in Sessions : \E t \in TransportIdArgs(s), ok \in BOOLEAN : Produce(s, t, ok)
  \/ \E s \in Sessions : \E t \in TransportIdArgs(s), p \in ProducerIdArgs, ok \in BOOLEAN :
        Consume(s, t, p, ok)
  \/ \E s \in Sessions : Disconnect(s)
  \/ \E t \in DOMAIN ms.transports : DtlsClosed(t)

MediaSpec == MediaInit /\ [][MediaNext]_vars

\* ------------------------------------------------------------- vocabulary
\* The client record a socket carries, Null when none.
ClientOf(s) == CM_getClientBySocketId(cmS, s)

\* Speak / listen right of a socket's client in a channel of the signaling
\* layer's registries: member of the channel, and the matrix allows it.
HasSpeak(s, C) ==
  /\ ClientOf(s) # Null
  /\ ClientOf(s) \in chmS[C].clients
  /\ Includes(cmS.clients[ClientOf(s)].channels, C)
  /\ \/ cmS.clients[ClientOf(s)].permissions.speakToAll
     \/ /\ C \in DOMAIN cmS.clients[ClientOf(s)].permissions.speakTo.m
        /\ cmS.clients[ClientOf(s)].permissions.speakTo.m[C]

HasListen(s, C) ==
  /\ ClientOf(s) # Null
  /\ ClientOf(s) \in chmS[C].clients
  /\ Includes(cmS.clients[ClientOf(s)].channels, C)
  /\ \/ cmS.clients[ClientOf(s)].permissions.listenToAll
     \/ /\ C \in DOMAIN cmS.clients[ClientOf(s)].permissions.listenTo.m
        /\ cmS.clients[ClientOf(s)].permissions.listenTo.m[C]

\* A socket whose client (if any) is not an admin.
NonAdmin(s) ==
  ~\E c \in DOMAIN cmS.clients : cmS.clients[c].socketId = s /\ cmS.clients[c].isAdmin

\* ------------------------------------------------------------------ claims

\* C1: every consumer in the Media Worker pairs a producer p with a
\* subscriber s such that some channel C has owner(p) and s as members,
\* owner(p) has speak right in C and s has listen right in C.
C1_ConsumersArePermitted ==
  \A k \in DOMAIN ms.consumers :
    /\ ms.consumers[k].producerId \in DOMAIN ms.producers
    /\ \E C \in DOMAIN chmS :
         /\ HasSpeak(ms.producers[ms.consumers[k].producerId].owner, C)
         /\ HasListen(ms.consumers[k].owner, C)

\* C2: a produce request creates a producer only if the requesting
\* session's client has speak right in at least one of its channels.
C2_ProduceNeedsSpeak ==
  [][\A p \in (DOMAIN ms'.producers) \ (DOMAIN ms.producers) :
        \E C \in DOMAIN chmS : HasSpeak(ms'.producers[p].owner, C)]_vars

\* C3: a request other than authenticate sent by a session that carries no
\* active client (new or pending) is answered with the error Unauthorized
\* and changes no registry and no Media Worker state.
GatedOps == {"getRouterRtpCapabilities", "createWebRtcTransport", "connectWebRtcTransport",
             "produce", "consume", "toggleChannelMute", "adjustChannelVolume",
             "createChannel", "authorizeClient"}

C3_UnauthenticatedRefused ==
  /\ []((resp.op \in GatedOps /\ ClientOf(resp.sid) = Null)
         => (~resp.success /\ resp.error = "Unauthorized"))
  /\ [][(resp'.op \in GatedOps /\ ClientOf(resp'.sid) = Null)
         => UNCHANGED <<cmS, chmS, ms>>]_vars

\* C4: the clientId of a clientPending event names the entry of the
\* authenticating socket in the pending queue.
C4_PendingEventNamesQueueEntry ==
  \A e \in emitted :
    e.name = "clientPending" =>
      /\ e.clientId \in DOMAIN cmS.pending
      /\ cmS.pending[e.clientId].socketId = e.from

\* C5: a user agent that passed admin-login has its live session recognised
\* as admin by the signaling layer.
C5_AdminSessionRecognised ==
  \A s \in Sessions : (sock[s] = "open" /\ token[s].isAdmin) => CM_isAdmin(cmS, s)

\* An authorizeClient or createChannel request of socket s is handled.
AdminOnlyRequest(s) ==
  \/ \E d \in AuthorizeArgs(s) :
       AuthorizeClient(s, d.clientId, d.authorized, d.channels, d.permissions, d.ioJoinsSender)
  \/ \E n \in ChannelNames : CreateChannel(s, n)

\* C6: authorizeClient and createChannel requests of a non-admin session are
\* answered with an error and leave the client registry, the pending queue
\* and the channel registry unchanged; requests of non-admin sessions make
\* no client active or admin (the registry keeps its start-up clients).
C6_NonAdminRefused ==
  /\ [](DOMAIN cmS.clients \subseteq {BootAdminS})
  /\ [][\A s \in Sessions :
          (NonAdmin(s) /\ AdminOnlyRequest(s))
            => (~resp'.success /\ resp'.error = "Unauthorized" /\ UNCHANGED <<cmS, chmS>>)]_vars

\* C6 witness: a non-admin socket asked to authorize while a client was
\* pending, and was refused.
C6_Witness ==
  /\ resp.op = "authorizeClient"
  /\ resp.error = "Unauthorized"
  /\ NonAdmin(resp.sid)
  /\ DOMAIN cmS.pending # {}

\* C7: authenticate (and login) enrol a pending client only when the server
\* secret is configured and the supplied secret equals it, and otherwise
\* answer with an error and leave the pending queue unchanged; the admin
\* path fails whenever the admin key is not configured.
C7_SecretsFailClosed ==
  /\ []((DOMAIN cmS.pending # {} \/ DOMAIN cmA.pending # {}) => ~Falsy(env.SERVER_PASSWORD))
  /\ []((DOMAIN cmA.clients \subseteq {BootAdminA}) \/ ~Falsy(env.ADMIN_KEY))
  /\ [][\A s \in Sessions, pw \in SuppliedSecrets :
          (Authenticate(s, pw)
             /\ (Falsy(env.SERVER_PASSWORD) \/ Falsy(pw) \/ pw # env.SERVER_PASSWORD))
            => (~resp'.success /\ UNCHANGED cmS)]_vars
  /\ [][\A s \in Sessions, pw \in SuppliedSecrets, k \in SuppliedKeys :
          (AdminLogin(s, pw, k) /\ Falsy(env.ADMIN_KEY))
            => (~resp'.success /\ UNCHANGED <<cmA, token>>)]_vars

\* C7 witness: with no server secret configured an authenticate request was
\* refused and nobody is pending.
C7_Witness ==
  /\ Falsy(env.SERVER_PASSWORD)
  /\ resp.op = "authenticate"
  /\ ~resp.success
  /\ DOMAIN cmS.pending = {}

\* C10: once a session has disconnected, no transport or producer it
\* created and no consumer of one of its producers is left in the Media
\* Worker's tables, and none of its producers is registered in a channel.
\* Handlers run to completion and defer nothing, so the state after the
\* disconnect handler is the final one unless a peer acts.
C10_DisconnectClosesMedia ==
  \A s \in Sessions :
    sock[s] = "closed" =>
      /\ \A t \in DOMAIN ms.transports : ms.transports[t].owner # s
      /\ \A p \in DOMAIN ms.producers : ms.producers[p].owner # s
      /\ \A k \in DOMAIN ms.consumers :
           ms.consumers[k].producerId \in DOMAIN ms.producers
             => ms.producers[ms.consumers[k].producerId].owner # s
      /\ \A C \in DOMAIN chmS : \A p \in chmS[C].producers :
           p \in DOMAIN ms.producers => ms.producers[p].owner # s

\* C11: in every reachable state of a Channel Registry the system channel
\* created at start-up still exists, and the registry holds at least one
\* channel.
C11_SystemChannelExists ==
  /\ SystemS \in DOMAIN chmS
  /\ SystemC \in DOMAIN chmC
  /\ SystemH \in DOMAIN chmH /\ DOMAIN chmH # {}

\* The clients that are enrolled and wait for an admin, on any surface, and
\* the clients some channel lists as member.
PendingIds == (DOMAIN cmS.pending) \cup (DOMAIN cmA.pending) \cup (DOMAIN cmC.pending)
Members ==
  UNION ({chmS[c].clients : c \in DOMAIN chmS} \cup {chmC[c].clients : c \in DOMAIN chmC}
           \cup {chmH[c].clients : c \in DOMAIN chmH})

\* C12: the HTTP admin surface and the signaling layer work on the same
\* registries: a client pending through authenticate or through login is in
\* the pending queue the clients routes list and authorize from, and the
\* channels created on one surface exist on the others.
C12_RegistriesShared ==
  /\ DOMAIN cmS.pending = DOMAIN cmC.pending
  /\ DOMAIN cmA.pending = DOMAIN cmC.pending
  /\ (DOMAIN chmH) \ {SystemH} = (DOMAIN chmS) \ {SystemS}
  /\ (DOMAIN chmC) \ {SystemC} = (DOMAIN chmS) \ {SystemS}

\* C13: after an admin authorizes a pending client with a channel list and a
\* grant, the client is active and no longer pending, its channels are the
\* list, each of them has the default settings, its permission matrix is
\* the grant, and each of those channels lists the client as member.
C13_AuthorizePostcondition ==
  [][\A s \in Sessions, id \in ClientRouteIds, b \in AuthorizeBodies :
       (/\ AdminGate(s) = "ok" /\ b.channels.def /\ b.permissions.def
        /\ id \in PendingIds
        /\ AuthorizeRoute(s, id, b.channels, b.permissions))
       => (/\ id \in DOMAIN cmC'.clients
           /\ id \notin (DOMAIN cmS'.pending) \cup (DOMAIN cmA'.pending)
                           \cup (DOMAIN cmC'.pending)
           /\ cmC'.clients[id].channels = b.channels.v
           /\ \A c \in Range(b.channels.v) :
                /\ c \in DOMAIN cmC'.clients[id].channelSettings
                /\ cmC'.clients[id].channelSettings[c] = DefaultSettings
                /\ c \in DOMAIN chmC' /\ id \in chmC'[c].clients
           /\ cmC'.clients[id].permissions.speakTo = b.permissions.v.speakTo
           /\ cmC'.clients[id].permissions.listenTo = b.permissions.v.listenTo
           /\ cmC'.clients[id].permissions.speakToAll = b.permissions.v.speakToAll
           /\ cmC'.clients[id].permissions.listenToAll = b.permissions.v.listenToAll)]_vars

\* C14: no client that is in a pending queue is in the members set of any
\* channel.
C14_PendingNotMember == PendingIds \cap Members = {}

\* C14 witness: while a client is pending and a channel has a member, a
\* request to add a client to a channel was refused.
C14_Witness ==
  /\ PendingIds # {}
  /\ Members # {}
  /\ resp.op = "POST /clients/:id/channels"
  /\ resp.error = "404"

\* C15: for every active client the channel ids that have a userSettings
\* entry are exactly the channel ids of the client's channels list, after any
\* sequence of authorize (also with repeated ids), addToChannel,
\* removeFromChannel, setChannelMute and setChannelVolume.
C15_SettingsDomainIsChannels ==
  \A cm \in {cmX, cmC, cmS, cmA} : \A id \in DOMAIN cm.clients :
    DOMAIN cm.clients[id].channelSettings = Range(cm.clients[id].channels)

\* C16: canSpeak(client, C) is true exactly when the client is registered,
\* is a member of C and (speakToAll or speakTo[C] is true); canListen likewise
\* with listenToAll and listenTo[C]; neither answer changes when the client's
\* mute flag or volume for C is set to another value.
Granted(all, map, channelId) ==
  all \/ (channelId \in DOMAIN map.m /\ map.m[channelId] = TRUE)

C16_EffectiveRights ==
  \A cm \in {cmC, cmS, cmA, cmX} :
    \A id \in (DOMAIN cm.clients) \cup (DOMAIN cm.pending) \cup {UnknownId} :
      \A c \in (DOMAIN chmC) \cup (DOMAIN chmS) \cup {UnknownId} :
        LET registered == id \in DOMAIN cm.clients
            member == registered /\ c \in Range(cm.clients[id].channels)
        IN /\ CM_canSpeak(cm, id, c) <=>
                (member /\ Granted(cm.clients[id].permissions.speakToAll,
                                   cm.clients[id].permissions.speakTo, c))
           /\ CM_canListen(cm, id, c) <=>
                (member /\ Granted(cm.clients[id].permissions.listenToAll,
                                   cm.clients[id].permissions.listenTo, c))
           /\ \A m \in BOOLEAN, v \in Volumes :
                LET other == CM_setChannelVolume(CM_setChannelMuteStatus(cm, id, c, m), id, c, v)
                IN /\ CM_canSpeak(other, id, c) = CM_canSpeak(cm, id, c)
                   /\ CM_canListen(other, id, c) = CM_canListen(cm, id, c)

\* a muted member whose only talk right is the grant for the one channel,
\* beside a channel the same client is not a member of
C16_Witness ==
  /\ BootAdminC \in DOMAIN cmC.clients
  /\ ~cmC.clients[BootAdminC].permissions.speakToAll
  /\ SystemC \in DOMAIN cmC.clients[BootAdminC].channelSettings
  /\ cmC.clients[BootAdminC].channelSettings[SystemC].muted
  /\ CM_canSpeak(cmC, BootAdminC, SystemC)
  /\ CM_canListen(cmC, BootAdminC, SystemC)
  /\ ~CM_canSpeak(cmC, BootAdminC, UnknownId)
  /\ resp.op = "PUT /clients/:id/channel-settings/:channelId"

\* C17: the Media Worker never holds two open consumers for the same
\* (producer, subscriber) pair; a consume request for a pair that already has
\* an open consumer does not create a second one.
C17_NoDuplicateConsumers ==
  \A k1, k2 \in DOMAIN ms.consumers :
    (/\ ms.consumers[k1].producerId = ms.consumers[k2].producerId
     /\ ms.consumers[k1].owner = ms.consumers[k2].owner) => k1 = k2

\* C18: when the session of a client that is still pending disconnects, the
\* client's entry leaves the pending queue: no pending entry names a session
\* that is closed.
C18_PendingDroppedOnDisconnect ==
  \A id \in DOMAIN cmS.pending : sock[cmS.pending[id].socketId] = "open"

\* C20: at most one client record, pending or active, is associated with a
\* given session; an authenticate request on a session that already carries
\* a client does not create a second record for it.
RecordsOf(cm, s) ==
  {id \in DOMAIN cm.pending : cm.pending[id].socketId = s}
    \cup {id \in DOMAIN cm.clients : cm.clients[id].socketId = s}

C20_OneRecordPerSession ==
  \A s \in Sessions : Cardinality(RecordsOf(cmS, s)) <= 1

\* C21: two requests of one session are applied and answered in the order
\* they were sent, also when the earlier one suspends on a Media Worker call
\* and the later one does not: no request of a session is answered while an
\* earlier request of that session is still suspended.
C21_SessionOrder ==
  [][\A s \in Sessions :
       ((\E p \in SuppliedSecrets : Authenticate(s, p)) \/ GetRouterRtpCapabilities(s))
         => \A i \in 1..Len(calls) : calls[i].sid # s]_vars

\* C22: after deleteChannel(C) succeeds for a non-system channel C, no client
\* record lists C in its channels or keeps a userSettings entry for C.
C22_DeleteChannelCascades ==
  [][\A C \in DOMAIN chmX :
       (C \notin DOMAIN chmX' /\ chmX[C].name # "System")
         => \A id \in DOMAIN cmX'.clients :
              /\ C \notin Range(cmX'.clients[id].channels)
              /\ C \notin DOMAIN cmX'.clients[id].channelSettings]_vars

\* C23: deleteChannel with the system channel's id fails with a Conflict
\* error and leaves the Channel Registry as it was.
C23_SystemDeleteIsConflict ==
  [][\A s \in Sessions :
       (AdminGate(s) = "ok" /\ DeleteChannel(s, SystemH))
         => (~resp'.success /\ resp'.error = "409" /\ chmH' = chmH)]_vars

C25_AddRemoveRestoresAlways ==
  \A id \in DOMAIN cmC.clients : \A C \in ClientRouteChannels :
    LET after == AddThenRemove(cmC, chmC, id, C)
    IN /\ after.cm.clients[id].permissions = cmC.clients[id].permissions
       /\ Range(after.cm.clients[id].channels) = Range(cmC.clients[id].channels)
       /\ DOMAIN after.chm = DOMAIN chmC
       /\ \A D \in DOMAIN chmC : after.chm[D].clients = chmC[D].clients

\* C25, amended: the same, for a client c that is not a member of C before
\* the two calls (neither by its channels list nor by C's members set).
C25_AddRemoveRestores ==
  \A id \in DOMAIN cmC.clients : \A C \in ClientRouteChannels :
    (/\ C \notin Range(cmC.clients[id].channels)
     /\ C \in DOMAIN chmC => id \notin chmC[C].clients)
      => LET after == AddThenRemove(cmC, chmC, id, C)
         IN /\ after.cm.clients[id].permissions = cmC.clients[id].permissions
            /\ Range(after.cm.clients[id].channels) = Range(cmC.clients[id].channels)
            /\ DOMAIN after.chm = DOMAIN chmC
            /\ \A D \in DOMAIN chmC : after.chm[D].clients = chmC[D].clients

\* an admin has added the client to the channel and removed it again, the
\* client's permission matrix having been edited before
C25_Witness ==
  /\ resp.op = "DELETE /clients/:id/channels/:channelId" /\ resp.success
  /\ BootAdminC \in DOMAIN cmC.clients
  /\ cmC.clients[BootAdminC].channels = <<>>
  /\ cmC.clients[BootAdminC].permissions.speakTo.def
  /\ chmC[SystemC].clients = {}

\* C26: a consume request creates a consumer only if the transport exists,
\* the producer exists and canConsume is true; with an unknown producer it is
\* answered NotFound, with canConsume false UnsupportedCodec, and in both
\* cases the consumer table is unchanged.
C26_ConsumeChecks ==
  [][\A s \in Sessions : \A t \in {Tid(1), Tid(2), UnknownId}, p \in {Pid(1), UnknownId}, ok \in BOOLEAN :
       Consume(s, t, p, ok)
         => /\ ms'.consumers # ms.consumers
                 => (t \in DOMAIN ms.transports /\ p \in DOMAIN ms.producers /\ ok)
            /\ p \notin DOMAIN ms.producers
                 => (resp' = Err(s, "consume", "not found") /\ ms'.consumers = ms.consumers)
            /\ (t \in DOMAIN ms.transports /\ p \in DOMAIN ms.producers /\ ~ok)
                 => (resp' = Err(s, "consume", "cannot consume")
                     /\ ms'.consumers = ms.consumers)]_vars

\* a consumer exists, and the last consume request was refused
C26_Witness ==
  /\ ms.consumers # <<>>
  /\ resp.op = "consume" /\ resp.error = "cannot consume"

\* C27: a produce request naming a transport that has been closed fails with
\* an error and leaves the producer table and every channel's producers set
\* unchanged.
C27_NoProduceOnClosedTransport ==
  [][\A s \in Sessions : \A ok \in BOOLEAN :
       (/\ nextId.transport > 1 /\ Tid(1) \notin DOMAIN ms.transports
        /\ Produce(s, Tid(1), ok))
         => (~resp'.success /\ ms'.producers = ms.producers /\ chmS' = chmS)]_vars

\* the first transport had a producer and was closed, and the produce request
\* that named it afterwards was refused
C27_Witness ==
  /\ nextId.transport > 1 /\ Tid(1) \notin DOMAIN ms.transports
  /\ nextId.producer > 1 /\ ms.producers = <<>>
  /\ resp.op = "produce" /\ resp.error = "not found"

\* C30: setChannelVolume(c, C, v) stores min(1, max(0, v)) for every numeric
\* v, and in every reachable state every stored per-channel volume lies in
\* [0, 1] (0..10 in tenths).
C30_VolumeInUnitInterval ==
  /\ [](\A cm \in {cmC, cmS, cmA, cmX} : \A id \in DOMAIN cm.clients :
          \A C \in DOMAIN cm.clients[id].channelSettings :
            cm.clients[id].channelSettings[C].volume \in 0..10)
  /\ [][\A s \in Sessions : \A id \in DOMAIN cmC.clients :
          \A C \in DOMAIN cmC.clients[id].channelSettings : \A v \in Volumes :
            (AdminGate(s) = "ok" /\ PutChannelSettings(s, id, C, NoFlag, [def |-> TRUE, v |-> v]))
              => cmC'.clients[id].channelSettings[C].volume
                   = (IF v < 0 THEN 0 ELSE IF v > 10 THEN 10 ELSE v)]_vars

\* C31: processing the disconnect of a session a second time raises no error
\* and leaves the Client Registry, the pending queue, the Channel Registry
\* and the Media Worker tables as the first disconnect left them.
C31_SecondDisconnectIsNoOp ==
  [][\A s \in Sessions :
       DisconnectAgain(s)
         => (UNCHANGED <<cmS, chmS, ms, cmA, cmC, chmC, chmH>> /\ emitted' = {})]_vars

\* a session that was pending and has a stored transport is closed, and its
\* disconnect has been processed after the transport request resumed
C31_Witness ==
  \E s \in Sessions :
    /\ sock[s] = "closed" /\ resp = NoResp
    /\ \E id \in DOMAIN cmS.pending : cmS.pending[id].socketId = s
    /\ \E t \in DOMAIN ms.transports : ms.transports[t].owner = s

\* C32: no two channels of the Channel Registry have the same name, after
\* any sequence of createChannel and updateChannel; in particular no second
\* channel carries the system channel's name.
C32_ChannelNamesUnique ==
  \A a, b \in DOMAIN chmH : chmH[a].name = chmH[b].name => a = b

\* C33: for every active client c, channel C of c and value m, calling
\* setChannelMuteStatus(c, C, m) twice in a row leaves the same registry as
\* calling it once.
C33_MuteTwiceIsMuteOnce ==
  \A id \in DOMAIN cmC.clients :
    \A c \in DOMAIN cmC.clients[id].channelSettings :
      \A m \in BOOLEAN :
        LET once == CM_setChannelMuteStatus(cmC, id, c, m)
        IN CM_setChannelMuteStatus(once, id, c, m) = once

\* an active client has muted one of its channels
C33_Witness ==
  \E id \in DOMAIN cmC.clients :
    \E c \in DOMAIN cmC.clients[id].channelSettings :
      /\ Includes(cmC.clients[id].channels, c)
      /\ cmC.clients[id].channelSettings[c].muted

\* C34: a request of a session that is suspended in a Media Worker call when
\* the session disconnects is cancelled: when it completes after the
\* disconnect, no transport, producer or consumer it created is left in the
\* Media Worker's tables.
C34_DisconnectCancelsSuspended ==
  [][(/\ calls # <<>>
      /\ sock[Head(calls).sid] = "closed"
      /\ calls' = Tail(calls))
     => (/\ DOMAIN ms'.transports \subseteq DOMAIN ms.transports
         /\ DOMAIN ms'.producers \subseteq DOMAIN ms.producers
         /\ DOMAIN ms'.consumers \subseteq DOMAIN ms.consumers)]_vars

\* C35: when a transport's DTLS state becomes closed, the transport leaves
\* the transport table, every producer and consumer created on it leaves the
\* producer and consumer tables, and so does every consumer of a producer
\* closed that way; hence in every state each stored consumer refers to a
\* stored producer and each stored producer or consumer to a stored transport.
C35_DtlsCloseCascades ==
  /\ [](/\ \A p \in DOMAIN ms.producers :
             ms.producers[p].transportId \in DOMAIN ms.transports
        /\ \A k \in DOMAIN ms.consumers :
             /\ ms.consumers[k].transportId \in DOMAIN ms.transports
             /\ ms.consumers[k].producerId \in DOMAIN ms.producers)
  /\ [][\A t \in DOMAIN ms.transports :
          DtlsClosed(t)
            => /\ t \notin DOMAIN ms'.transports
               /\ \A p \in DOMAIN ms'.producers : ms'.producers[p].transportId # t
               /\ \A k \in DOMAIN ms'.consumers :
                    /\ ms'.consumers[k].transportId # t
                    /\ ms'.consumers[k].producerId \in DOMAIN ms'.producers
               /\ DOMAIN ms'.transports = (DOMAIN ms.transports) \ {t}]_vars

\* the first transport carried a producer and has been closed; the second
\* transport is still open, and the consumer table is empty again
C35_Witness ==
  /\ nextId.transport > 2 /\ DOMAIN ms.transports = {Tid(2)}
  /\ nextId.producer > 1 /\ ms.producers = <<>>
  /\ nextId.consumer > 1 /\ ms.consumers = <<>>

C39_SettingsFrame ==
  /\ [](\A id \in ClientRouteIds, C \in ClientRouteChannels, b \in SettingsBodies :
           LET cm1 == IF b.muted.def THEN CM_setChannelMuteStatus(cmC, id, C, b.muted.v)
                      ELSE cmC
               after == IF b.volume.def THEN CM_setChannelVolume(cm1, id, C, b.volume.v)
                        ELSE cm1
           IN /\ after.pending = cmC.pending
              /\ DOMAIN after.clients = DOMAIN cmC.clients
              /\ \A j \in DOMAIN cmC.clients :
                   /\ j # id => after.clients[j] = cmC.clients[j]
                   /\ [after.clients[j] EXCEPT !.channelSettings = <<>>]
                        = [cmC.clients[j] EXCEPT !.channelSettings = <<>>]
                   /\ DOMAIN after.clients[j].channelSettings
                        = DOMAIN cmC.clients[j].channelSettings
                   /\ \A D \in DOMAIN cmC.clients[j].channelSettings :
                        D # C => after.clients[j].channelSettings[D]
                                   = cmC.clients[j].channelSettings[D])
  /\ [][resp'.op = "PUT /clients/:id/channel-settings/:channelId"
         => /\ UNCHANGED <<chmC, chmS, chmH, ms, cmS, cmA>>
            /\ \E id \in ClientRouteIds, C \in ClientRouteChannels, b \in SettingsBodies :
                 LET cm1 == IF b.muted.def
                            THEN CM_setChannelMuteStatus(cmC, id, C, b.muted.v) ELSE cmC
                 IN cmC' = (IF b.volume.def
                            THEN CM_setChannelVolume(cm1, id, C, b.volume.v) ELSE cm1)]_vars

\* a member's volume for the channel has been turned down by a request that
\* was answered with success, and its channels list and rights are intact
C39_Witness ==
  /\ resp.op = "PUT /clients/:id/channel-settings/:channelId" /\ resp.success
  /\ \E id \in DOMAIN cmC.clients : \E C \in DOMAIN cmC.clients[id].channelSettings :
       /\ cmC.clients[id].channelSettings[C].volume = 0
       /\ cmC.clients[id].channels = <<C>>
       /\ cmC.clients[id].permissions.listenToAll

\* C40: on a shutdown signal (SIGTERM or SIGINT) the server stops the
\* signaling server and lets its sessions end, closes the Media Worker only
\* after that, and exits with code 0; a Media Worker death or a failed
\* initialisation ends the process with a nonzero code.
C40_ShutdownOrder ==
  /\ (proc.exit # "none" /\ proc.signal # "none" /\ proc.worker \notin {"died", "failed"})
       => /\ proc.exit = "0"
          /\ ~proc.listening
          /\ \A s \in Sessions : sock[s] = "closed"
          /\ proc.worker \in {"closed", "initializing"}
  /\ proc.worker = "closed"
       => (~proc.listening /\ \A s \in Sessions : sock[s] = "closed")
  /\ (proc.exit # "none" /\ proc.worker \in {"died", "failed"}) => proc.exit # "0"

\* No socket ever carries a client record, and no channel ever lists a
\* member or a producer: the cases of C8 and C9 do not arise.
NoSessionCarriesClient ==
  /\ \A s \in Sessions : ClientOf(s) = Null
  /\ \A C \in DOMAIN chmS : chmS[C].clients = {} /\ chmS[C].producers = {}

====
